---------------------------- MODULE Spec2Model ----------------------------
(***************************************************************************)
(* streamchat (rust_03): Diffie-Hellman key agreement over a duplex byte   *)
(* stream, an LCG keystream generator, and the two-path chat loop that     *)
(* shares one keystream cursor under a mutex.                              *)
(*                                                                         *)
(* Unsigned machine integers are little-endian sequences of base-256       *)
(* limbs (u32: 4 limbs, u64: 8 limbs, u128: 16 limbs), so that 64-bit and  *)
(* 128-bit arithmetic is exact.                                            *)
(***************************************************************************)
EXTENDS Integers, Sequences, FiniteSets, TLC

-----------------------------------------------------------------------------
(* Bounds of the model *)

\* mod_pow inputs: small bases, exponents and moduli are 0..Max*
MaxPowBase == 4
MaxPowExp == 5
MaxPowMod == 5

MaxDraws == 8

MaxPeek == 6

MaxMsgLen == 2

MaxPrivateKey == 3

MaxFrameLen == 2

MaxFrames == 2

-----------------------------------------------------------------------------
(* Fixed-width unsigned arithmetic on limb sequences                        *)
(*                                                                          *)
(* Every operator takes the value of its arguments once, by binding them in *)
(* a singleton set, before it computes with them.                           *)

\* A sequence given as a function on 1..n, as the tuple of its values.
Tup(f) == f \o <<>>

\* The k-limb encoding of a natural number n < 2^31.
Limbs(n, k) ==
    Tup([i \in 1..k |-> IF i > 4 THEN 0 ELSE (n \div (256 ^ (i - 1))) % 256])

U64(n) == Limbs(n, 8)

\* `as uN`: zero-extend or truncate to k limbs.
Cast(a, k) ==
    CHOOSE y \in {Tup([i \in 1..k |-> IF i <= Len(x) THEN x[i] ELSE 0]) : x \in {a}} : TRUE

\* The highest limb below i where p and q differ, 0 when there is none.
TopDiff(p, q, i) ==
    IF \A k \in 1..(i - 1) : p[k] = q[k] THEN 0
    ELSE i - (CHOOSE s \in 1..(i - 1) :
                 /\ p[i - s] # q[i - s]
                 /\ \A j \in (i - s + 1)..(i - 1) : p[j] = q[j])

\* a >= b, for limb sequences of equal length.
Ge(a, b) ==
    \E x \in {<<a, b>>} :
        \E t \in {TopDiff(x[1], x[2], Len(x[1]) + 1)} :
            t = 0 \/ x[1][t] > x[2][t]

Lt(a, b) == ~Ge(a, b)

IsZero(a) == \E x \in {a} : \A i \in 1..Len(x) : x[i] = 0

\* The number of limbs of a up to its highest nonzero limb (0 for zero).
EffLen(a) ==
    CHOOSE y \in {CHOOSE n \in 0..Len(x) :
                     /\ n = 0 \/ x[n] # 0
                     /\ \A j \in (n + 1)..Len(x) : x[j] = 0
                  : x \in {a}} : TRUE

\* The borrow into limb i of a - b: the highest differing limb below i is
\* smaller in a.
Borrow(a, b, i) ==
    IF \E s \in 1..(i - 1) :
          /\ a[i - s] < b[i - s]
          /\ \A j \in (i - s + 1)..(i - 1) : a[j] = b[j]
    THEN 1 ELSE 0

\* wrapping_sub: a - b modulo 256^Len(a), for limb sequences of equal length.
Sub(a, b) ==
    CHOOSE y \in {Tup([i \in 1..Len(x[1]) |->
                        (x[1][i] - x[2][i] - Borrow(x[1], x[2], i) + 256) % 256])
                  : x \in {<<a, b>>}} : TRUE

\* The carry into limb i of a + b: the highest limb below i whose sum is not
\* 255 overflows.
Carry(a, b, i) ==
    IF \E s \in 1..(i - 1) :
          /\ a[i - s] + b[i - s] > 255
          /\ \A j \in (i - s + 1)..(i - 1) : a[j] + b[j] = 255
    THEN 1 ELSE 0

\* wrapping_add: a + b modulo 256^Len(a), for limb sequences of equal length.
WrappingAdd(a, b) ==
    CHOOSE y \in {Tup([i \in 1..Len(x[1]) |->
                        (x[1][i] + x[2][i] + Carry(x[1], x[2], i)) % 256])
                  : x \in {<<a, b>>}} : TRUE

\* The sum of a[i] * b[c + 1 - i] over i..n: column c of the schoolbook product.
RECURSIVE ColSum(_, _, _, _, _)
ColSum(a, b, c, i, n) ==
    IF i > n \/ i > c THEN 0
    ELSE (IF c + 1 - i <= Len(b) THEN a[i] * b[c + 1 - i] ELSE 0)
         + ColSum(a, b, c, i + 1, n)

\* The number whose limb c is the byte j (0, 1, 2) of column c - j.
ColBytes(col, j) ==
    Tup([c \in 1..Len(col) |->
           IF c > j THEN (col[c - j] \div (256 ^ j)) % 256 ELSE 0])

\* wrapping_mul at a width of k limbs: a * b modulo 256^k. Column c of the
\* schoolbook product is below 2^24: its three bytes are added at limbs
\* c, c + 1 and c + 2.
WrappingMul(a, b, k) ==
    CHOOSE y \in
        {WrappingAdd(WrappingAdd(ColBytes(col, 0), ColBytes(col, 1)), ColBytes(col, 2))
         : col \in {Tup([c \in 1..k |-> ColSum(x[1], x[2], c, 1, x[3])])
                    : x \in {<<v[1], v[2], EffLen(v[1])>> : v \in {<<a, b>>}}}} : TRUE

\* m * q in Len(m) + 1 limbs, for one limb q.
MulLimb(m, q) ==
    CHOOSE y \in
        {WrappingAdd(Tup([i \in 1..(Len(x) + 1) |->
                            IF i <= Len(x) THEN (x[i] * q) % 256 ELSE 0]),
                     Tup([i \in 1..(Len(x) + 1) |->
                            IF i > 1 THEN (x[i - 1] * q) \div 256 ELSE 0]))
         : x \in {m}} : TRUE

\* The lower and upper estimate of the quotient limb of r by m, from the
\* three highest limbs of r and the two highest of m.
QuotLow(r, m, k) ==
    (r[k + 1] * 65536 + r[k] * 256 + (IF k > 1 THEN r[k - 1] ELSE 0))
        \div (m[k] * 256 + (IF k > 1 THEN m[k - 1] ELSE 0) + 1)

QuotHigh(r, m, k) ==
    CHOOSE y \in {IF q > 255 THEN 255 ELSE q
                  : q \in {(r[k + 1] * 65536 + r[k] * 256
                              + (IF k > 1 THEN r[k - 1] ELSE 0) + 1)
                           \div (m[k] * 256 + (IF k > 1 THEN m[k - 1] ELSE 0))}} : TRUE

\* The largest limb q with q * m <= r.
QuotLimb(r, m) ==
    CHOOSE q \in QuotLow(r, m, Len(m))..QuotHigh(r, m, Len(m)) :
        /\ Ge(r, MulLimb(m, q))
        /\ \A q2 \in (q + 1)..QuotHigh(r, m, Len(m)) : ~Ge(r, MulLimb(m, q2))

\* One step of long division: r % m for r < 256 * m, where m has k limbs,
\* the highest nonzero, and r has k + 1.
DivStep(r, m) ==
    CHOOSE y \in {Sub(x[1], MulLimb(x[2], QuotLimb(x[1], x[2])))
                  : x \in {<<r, m>>}} : TRUE

\* The remainder modulo m of the limbs 1..i of x below the limbs whose
\* remainder is r.
RECURSIVE RemFrom(_, _, _, _)
RemFrom(x, m, i, r) ==
    IF i = 0 THEN r
    ELSE CHOOSE y \in {RemFrom(x, m, i - 1, r1)
                       : r1 \in {DivStep(<<x[i]>> \o SubSeq(r, 1, Len(m)), m)}} : TRUE

\* x % m in Len(m) limbs, by long division, for m > 0.
Rem(x, m) ==
    CHOOSE y \in
        {IF v[4] < v[3] THEN Cast(v[1], Len(v[2]))
         ELSE Cast(RemFrom(v[1], SubSeq(v[2], 1, v[3]), v[4] - v[3] + 1,
                           Cast(SubSeq(v[1], v[4] - v[3] + 2, v[4]), v[3] + 1)),
                   Len(v[2]))
         : v \in {<<w[1], w[2], EffLen(w[2]), EffLen(w[1])>> : w \in {<<x, m>>}}} : TRUE

\* exp % 2 == 1 and exp / 2
IsOdd(a) == a[1] % 2 = 1

Half(a) ==
    CHOOSE y \in
        {Tup([i \in 1..Len(x) |->
                (x[i] \div 2) + (IF i < Len(x) THEN (x[i + 1] % 2) * 128 ELSE 0)])
         : x \in {a}} : TRUE

-----------------------------------------------------------------------------
(* Program constants *)

P == <<243, 199, 180, 145, 226, 163, 127, 216>>    \* 0xD87FA3E291B4C7F3

G == U64(2)

-----------------------------------------------------------------------------
(* mod_pow *)

\* (x as u128 * y as u128 % modulus as u128) as u64, with u64-wide multiplication
MulMod_u64(x, y, modulus) ==
    Cast(Rem(WrappingMul(x, y, 8), modulus), 8)

\* (x as u128 * y as u128) as u64: the reduction forgotten
MulMod_noreduce(x, y, modulus) ==
    WrappingMul(x, y, 8)

\* (x as u128 * y as u128 % modulus as u128) as u64
MulMod(x, y, modulus) ==
    Cast(Rem(WrappingMul(Cast(x, 16), Cast(y, 16), 16), Cast(modulus, 16)), 8)

\* Lines 16-20: the early return for modulus == 1, else result = 1 and
\* base %= modulus.
mod_pow_entry(base, exp, modulus) ==
    IF modulus = U64(1)
    THEN [pc |-> "done", base |-> base, exp |-> exp, modulus |-> modulus,
          result |-> U64(0)]
    ELSE [pc |-> "loop", base |-> Rem(base, modulus), exp |-> exp,
          modulus |-> modulus, result |-> U64(1)]

\* One evaluation of the loop condition and, when it holds, of the loop body.
mod_pow_iter(s) ==
    IF ~IsZero(s.exp)
    THEN [s EXCEPT !.result = IF IsOdd(s.exp)
                              THEN MulMod(s.result, s.base, s.modulus)
                              ELSE s.result,
                   !.base = MulMod(s.base, s.base, s.modulus),
                   !.exp = Half(s.exp)]
    ELSE [s EXCEPT !.pc = "done"]

\* The loop run to its end.
RECURSIVE mod_pow_run(_)
mod_pow_run(s) ==
    CHOOSE y \in {IF t.pc = "done" THEN t ELSE mod_pow_run(mod_pow_iter(t))
                  : t \in {s}} : TRUE

mod_pow(base, exp, modulus) == mod_pow_run(mod_pow_entry(base, exp, modulus)).result

-----------------------------------------------------------------------------
(* Lcg and LcgStream *)

LCG_A == U64(1103515245)

LCG_C == U64(12345)

LCG_M == <<0, 0, 0, 0, 1, 0, 0, 0>>    \* 1u64 << 32

\* The inbound thread's read buffer
BufLen == 1024

\* The bytes of a value least significant first
to_le_bytes(v) == v

\* u32::to_be_bytes, u64::to_be_bytes: most significant byte first.
to_be_bytes(v) ==
    CHOOSE y \in {Tup([i \in 1..Len(x) |-> x[Len(x) + 1 - i]]) : x \in {v}} : TRUE

\* u64::from_be_bytes, read as little-endian: the first byte on the wire
\* taken as the least significant.
from_le_bytes(b) == b

\* u64::from_be_bytes
from_be_bytes(b) ==
    CHOOSE y \in {Tup([i \in 1..Len(x) |-> x[Len(x) + 1 - i]]) : x \in {b}} : TRUE

Bit(a, i) == (a \div (2 ^ i)) % 2

\* a ^ b on bytes
Xor(a, b) ==
    ((Bit(a, 0) + Bit(b, 0)) % 2)
    + 2 * ((Bit(a, 1) + Bit(b, 1)) % 2)
    + 4 * ((Bit(a, 2) + Bit(b, 2)) % 2)
    + 8 * ((Bit(a, 3) + Bit(b, 3)) % 2)
    + 16 * ((Bit(a, 4) + Bit(b, 4)) % 2)
    + 32 * ((Bit(a, 5) + Bit(b, 5)) % 2)
    + 64 * ((Bit(a, 6) + Bit(b, 6)) % 2)
    + 128 * ((Bit(a, 7) + Bit(b, 7)) % 2)

Lcg_new(seed) == [state |-> seed]

\* next_u32 without the reduction modulo LCG_M
next_u32_nomod(lcg) ==
    CHOOSE y \in
        {[lcg |-> [state |-> next_val], val |-> Cast(next_val, 4)]
         : next_val \in
             {WrappingAdd(WrappingMul(LCG_A, Cast(Cast(lcg.state, 4), 8), 8),
                          LCG_C)}} : TRUE

\* Lcg::next_u32: the new state and the value returned.
next_u32(lcg) ==
    CHOOSE y \in
        {[lcg |-> [state |-> next_val], val |-> Cast(next_val, 4)]
         : next_val \in
             {Rem(WrappingAdd(WrappingMul(LCG_A, Cast(Cast(lcg.state, 4), 8), 8),
                              LCG_C),
                  LCG_M)}} : TRUE

LcgStream_new(seed) ==
    [lcg |-> Lcg_new(seed), buffer |-> <<>>, total_consumed |-> 0]

\* The refill of get_byte: one next_u32, its four bytes appended to the buffer.
refill(s) ==
    CHOOSE y \in
        {[s EXCEPT !.lcg = n.lcg, !.buffer = s.buffer \o to_be_bytes(n.val)]
         : n \in {next_u32(s.lcg)}} : TRUE

\* get_byte with total_consumed bumped only when the buffer is refilled
get_byte_countrefill(s) ==
    CHOOSE y \in
        {[stream |-> [lcg |-> f.lcg, buffer |-> Tail(f.buffer),
                      total_consumed |-> f.total_consumed],
          byte |-> Head(f.buffer)]
         : f \in {IF x.buffer = <<>>
                  THEN [refill(x) EXCEPT !.total_consumed = @ + 1]
                  ELSE x : x \in {s}}} : TRUE

\* get_byte that leaves total_consumed alone
get_byte_nocount(s) ==
    CHOOSE y \in
        {[stream |-> [lcg |-> f.lcg, buffer |-> Tail(f.buffer),
                      total_consumed |-> f.total_consumed],
          byte |-> Head(f.buffer)]
         : f \in {IF x.buffer = <<>> THEN refill(x) ELSE x : x \in {s}}} : TRUE

\* get_byte that refills as soon as one byte is left in the buffer
get_byte_eager(s) ==
    CHOOSE y \in
        {[stream |-> [lcg |-> f.lcg, buffer |-> Tail(f.buffer),
                      total_consumed |-> f.total_consumed + 1],
          byte |-> Head(f.buffer)]
         : f \in {IF Len(x.buffer) <= 1 THEN refill(x) ELSE x : x \in {s}}} : TRUE

\* LcgStream::get_byte: the stream afterwards and the byte returned.
get_byte(s) ==
    CHOOSE y \in
        {[stream |-> [lcg |-> f.lcg, buffer |-> Tail(f.buffer),
                      total_consumed |-> f.total_consumed + 1],
          byte |-> Head(f.buffer)]
         : f \in {IF x.buffer = <<>> THEN refill(x) ELSE x : x \in {s}}} : TRUE

\* The while loop of peek_bytes on the temporary generator and buffer.
RECURSIVE peek_fill(_, _, _)
peek_fill(temp_lcg, temp_buf, count) ==
    IF Len(temp_buf) < count
    THEN CHOOSE y \in
            {peek_fill(n.lcg, temp_buf \o to_be_bytes(n.val), count)
             : n \in {next_u32(temp_lcg)}} : TRUE
    ELSE temp_buf

RECURSIVE drain(_, _)
drain(s, count) ==
    IF count = 0 THEN [stream |-> s, result |-> <<>>]
    ELSE CHOOSE y \in
            {CHOOSE z \in {[stream |-> r.stream, result |-> <<g.byte>> \o r.result]
                           : r \in {drain(g.stream, count - 1)}} : TRUE
             : g \in {get_byte(s)}} : TRUE

\* peek_bytes written with get_byte on the stream itself
peek_bytes_drain(s, count) == drain(s, count)

\* LcgStream::peek_bytes: the stream afterwards and the bytes returned.
peek_bytes(s, count) ==
    CHOOSE y \in
        {[stream |-> x, result |-> SubSeq(peek_fill(x.lcg, x.buffer, count), 1, count)]
         : x \in {s}} : TRUE

\* One iteration of the decryption loop with the key byte subtracted
decrypt_byte_sub(s, b) ==
    CHOOSE y \in
        {[stream |-> g.stream, key |-> g.byte, out |-> (b + 256 - g.byte) % 256]
         : g \in {get_byte(s)}} : TRUE

\* One iteration of the encryption loop that drops a key byte first
encrypt_byte_skip(s, b) ==
    CHOOSE y \in
        {[stream |-> g.stream, key |-> g.byte, out |-> Xor(b, g.byte)]
         : g \in {get_byte(get_byte(s).stream)}} : TRUE

\* One iteration of the encryption loop: key byte drawn, plaintext byte XORed.
encrypt_byte(s, b) ==
    CHOOSE y \in
        {[stream |-> g.stream, key |-> g.byte, out |-> Xor(b, g.byte)]
         : g \in {get_byte(s)}} : TRUE

\* One iteration of the decryption loop: key byte drawn, cipher byte XORed.
decrypt_byte(s, b) ==
    CHOOSE y \in
        {[stream |-> g.stream, key |-> g.byte, out |-> Xor(b, g.byte)]
         : g \in {get_byte(s)}} : TRUE

\* The encryption loop over a whole message.
RECURSIVE encrypt(_, _)
encrypt(s, m) ==
    IF m = <<>> THEN [stream |-> s, out |-> <<>>]
    ELSE CHOOSE y \in
            {CHOOSE z \in {[stream |-> r.stream, out |-> <<e.out>> \o r.out]
                           : r \in {encrypt(e.stream, Tail(m))}} : TRUE
             : e \in {encrypt_byte(s, Head(m))}} : TRUE

\* The decryption loop over a whole received buffer.
RECURSIVE decrypt(_, _)
decrypt(s, c) ==
    IF c = <<>> THEN [stream |-> s, out |-> <<>>]
    ELSE CHOOSE y \in
            {CHOOSE z \in {[stream |-> r.stream, out |-> <<d.out>> \o r.out]
                           : r \in {decrypt(d.stream, Tail(c))}} : TRUE
             : d \in {decrypt_byte(s, Head(c))}} : TRUE

-----------------------------------------------------------------------------
VARIABLES mp, mp_in, ks, kh,
          is_server, hs, wire, cipher, lock, inb, outb,
          framed, frame_bytes, nframes, tally

vars == <<mp, mp_in, ks, kh, is_server, hs, wire, cipher, lock, inb, outb,
          framed, frame_bytes, nframes, tally>>

PowVars == <<mp, mp_in>>

StreamVars == <<ks, kh>>

ChatVars == <<cipher, lock, inb, outb, framed, frame_bytes, nframes, tally>>

SysVars == <<is_server, hs, wire, ChatVars>>

MaxU64 == Tup([i \in 1..8 |-> 255])

\* 2^77 mod P
Secret77 == <<222, 187, 250, 17, 139, 65, 157, 146>>

PowIdle ==
    /\ mp_in = [base |-> U64(0), exp |-> U64(0), modulus |-> U64(1)]
    /\ mp = [pc |-> "idle", base |-> U64(0), exp |-> U64(0), modulus |-> U64(1),
             result |-> U64(0)]

StreamIdle ==
    /\ ks = LcgStream_new(U64(0))
    /\ kh = [op |-> "idle"]

Peers == {"server", "client"}

Other(p) == IF p = "server" THEN "client" ELSE "server"

\* A key or secret not assigned yet.
Unset == <<>>

HsStart ==
    [pc |-> "keygen", private_key |-> Unset, public_key |-> Unset,
     their_public_key |-> Unset, secret |-> Unset, preview |-> <<>>,
     wrote |-> FALSE, closed_unread |-> FALSE]

InbIdle(pc) ==
    [pc |-> pc, cipher |-> <<>>, start_pos |-> 0, plain |-> <<>>,
     key_bytes |-> <<>>, pos |-> <<>>, src_plain |-> <<>>, src_pos |-> <<>>]

OutbIdle(pc) ==
    [pc |-> pc, plain_bytes |-> <<>>, start_pos |-> 0, cipher |-> <<>>,
     key_bytes |-> <<>>, pos |-> <<>>]

ChatIdle ==
    /\ cipher = [p \in Peers |-> LcgStream_new(U64(0))]
    /\ lock = [p \in Peers |-> "free"]
    /\ inb = [p \in Peers |-> InbIdle("unborn")]
    /\ outb = [p \in Peers |-> OutbIdle("unborn")]
    /\ framed = TRUE
    /\ frame_bytes = [p \in Peers |-> 0]
    /\ nframes = 0
    /\ tally = [encrypted |-> [p \in Peers |-> 0],
                written |-> [p \in Peers |-> 0],
                in_step |-> TRUE,
                crossed |-> FALSE]

SysIdle ==
    /\ is_server = [p \in Peers |-> p = "server"]
    /\ hs = [p \in Peers |-> [HsStart EXCEPT !.pc = "idle"]]
    /\ wire = [p \in Peers |-> <<>>]
    /\ ChatIdle

-----------------------------------------------------------------------------
(* mod_pow run step by step on bounded inputs *)

PowBases == {U64(n) : n \in 0..MaxPowBase} \cup {MaxU64, Sub(P, U64(1))}

PowExps == {U64(n) : n \in 0..MaxPowExp} \cup {U64(77), MaxU64}

PowMods == {U64(n) : n \in 1..MaxPowMod} \cup {MaxU64, P}

PowInit ==
    /\ mp_in \in [base : PowBases, exp : PowExps, modulus : PowMods]
    /\ mp = [pc |-> "entry", base |-> mp_in.base, exp |-> mp_in.exp,
             modulus |-> mp_in.modulus, result |-> U64(0)]
    /\ StreamIdle
    /\ SysIdle

PowEntry ==
    /\ mp.pc = "entry"
    /\ mp' = mod_pow_entry(mp.base, mp.exp, mp.modulus)
    /\ UNCHANGED <<mp_in, StreamVars, SysVars>>

PowIter ==
    /\ mp.pc = "loop"
    /\ mp' = mod_pow_iter(mp)
    /\ UNCHANGED <<mp_in, StreamVars, SysVars>>

PowNext == PowEntry \/ PowIter

SpecPow == PowInit /\ [][PowNext]_vars /\ WF_vars(PowNext)

-----------------------------------------------------------------------------
(* One LcgStream driven by get_byte, peek_bytes and whole-message encryption *)

\* 2^32, a seed with the low 32 bits of the seed 0
TwoTo32 == <<0, 0, 0, 0, 1, 0, 0, 0>>

StreamSeeds == {U64(0), U64(1), MaxU64, Secret77, TwoTo32}

MsgBytes == {0, 104, 255}

Msgs == UNION {[1..n -> MsgBytes] : n \in 0..MaxMsgLen}

\* What the last operation was given and what it returned.
Hist(op, pre) ==
    [op |-> op, pre |-> pre, n |-> 0, tc0 |-> 0, peeked |-> <<>>, got |-> <<>>,
     tracking |-> FALSE, m |-> <<>>, c |-> <<>>, d |-> <<>>,
     seed |-> <<>>, byte |-> -1]

StreamInit ==
    /\ \E seed \in StreamSeeds :
          /\ ks = LcgStream_new(seed)
          /\ kh = [Hist("new", LcgStream_new(seed)) EXCEPT !.seed = seed]
    /\ PowIdle
    /\ SysIdle

StGetByte ==
    /\ ks.total_consumed < MaxDraws
    /\ \E g \in {get_byte(ks)} :
          /\ ks' = g.stream
          /\ kh' = IF kh.tracking /\ Len(kh.got) < Len(kh.peeked)
                   THEN [kh EXCEPT !.op = "get", !.pre = ks,
                                   !.got = Append(@, g.byte),
                                   !.byte = g.byte]
                   ELSE [Hist("get", ks) EXCEPT !.seed = kh.seed,
                                                !.byte = g.byte]
    /\ UNCHANGED <<PowVars, SysVars>>

StPeek ==
    /\ \E count \in 0..MaxPeek : \E r \in {peek_bytes(ks, count)} :
          /\ ks' = r.stream
          /\ kh' = [Hist("peek", ks) EXCEPT !.seed = kh.seed,
                                            !.byte = -1,
                                            !.n = count,
                                            !.tc0 = ks.total_consumed,
                                            !.peeked = r.result,
                                            !.tracking = TRUE]
    /\ UNCHANGED <<PowVars, SysVars>>

StRoundTrip ==
    /\ \E m \in Msgs :
          /\ ks.total_consumed + Len(m) <= MaxDraws
          /\ \E e \in {encrypt(ks, m)} :
                /\ ks' = e.stream
                /\ kh' = [Hist("rt", ks) EXCEPT !.seed = kh.seed,
                                                !.m = m, !.c = e.out,
                                                !.d = decrypt(ks, e.out).out]
    /\ UNCHANGED <<PowVars, SysVars>>

StreamNext == StGetByte \/ StPeek \/ StRoundTrip

SpecStream == StreamInit /\ [][StreamNext]_vars

-----------------------------------------------------------------------------
(* dh_handshake on the two ends of one connected stream *)

\* The bytes of one write_all, each with the plaintext byte it carries and
\* the keystream position it was encrypted at (-1 for bytes sent in clear).
Frame(bytes, plain, pos) == [bytes |-> bytes, plain |-> plain, pos |-> pos]

ClearFrame(bytes) ==
    Frame(bytes, bytes, Tup([i \in 1..Len(bytes) |-> -1]))

RECURSIVE Avail(_)
Avail(w) == IF w = <<>> THEN 0 ELSE Len(w[1].bytes) + Avail(Tail(w))

\* The first n bytes queued on w taken off it; whole when they are exactly
\* the bytes of one write.
RECURSIVE Take(_, _)
Take(w, n) ==
    IF n = 0 THEN [got |-> Frame(<<>>, <<>>, <<>>), rest |-> w, whole |-> FALSE]
    ELSE IF Len(w[1].bytes) > n
    THEN [got |-> Frame(SubSeq(w[1].bytes, 1, n), SubSeq(w[1].plain, 1, n),
                        SubSeq(w[1].pos, 1, n)),
          rest |-> <<Frame(SubSeq(w[1].bytes, n + 1, Len(w[1].bytes)),
                           SubSeq(w[1].plain, n + 1, Len(w[1].bytes)),
                           SubSeq(w[1].pos, n + 1, Len(w[1].bytes)))>>
                   \o Tail(w),
          whole |-> FALSE]
    ELSE CHOOSE y \in
            {[got |-> Frame(w[1].bytes \o r.got.bytes, w[1].plain \o r.got.plain,
                            w[1].pos \o r.got.pos),
              rest |-> r.rest,
              whole |-> (Len(w[1].bytes) = n)]
             : r \in {Take(Tail(w), n - Len(w[1].bytes))}} : TRUE

\* The exchange with both ends reading first
FirstOp_recv(p) == "recv"

\* The exchange with both ends writing first
FirstOp_send(p) == "send"

\* Lines 191 and 201: the responder writes first, the initiator reads first.
FirstOp(p) == IF is_server[p] THEN "send" ELSE "recv"

SecondOp(p) == IF FirstOp(p) = "send" THEN "recv" ELSE "send"

CurOp(p) ==
    IF hs[p].pc = "first" THEN FirstOp(p)
    ELSE IF hs[p].pc = "second" THEN SecondOp(p)
    ELSE "none"

AfterOp(p) == IF hs[p].pc = "first" THEN "second" ELSE "derive"

\* The secret computed with base and exponent exchanged
shared_secret_swapped(their_public_key, private_key) ==
    mod_pow(private_key, their_public_key, P)

\* Line 182
public_key_of(private_key) == mod_pow(G, private_key, P)

\* Line 216
shared_secret(their_public_key, private_key) ==
    mod_pow(their_public_key, private_key, P)

SysInit ==
    /\ is_server = [p \in Peers |-> p = "server"]
    /\ hs = [p \in Peers |-> HsStart]
    /\ wire = [p \in Peers |-> <<>>]
    /\ ChatIdle
    /\ PowIdle
    /\ StreamIdle

\* Lines 179-182: the private key drawn, the public key computed.
HsKeyGen(p, keys) ==
    /\ hs[p].pc = "keygen"
    /\ \E k \in keys :
          hs' = [hs EXCEPT ![p] = [@ EXCEPT !.private_key = k,
                                            !.public_key = public_key_of(k),
                                            !.pc = "first"]]
    /\ UNCHANGED <<is_server, wire, ChatVars, PowVars, StreamVars>>

\* The handshake write carrying the private key
HsSend_private(p) ==
    /\ CurOp(p) = "send"
    /\ wire' = [wire EXCEPT ![Other(p)] =
                    Append(@, ClearFrame(to_be_bytes(hs[p].private_key)))]
    /\ hs' = [hs EXCEPT ![p] = [@ EXCEPT !.wrote = TRUE, !.pc = AfterOp(p)]]
    /\ UNCHANGED <<is_server, ChatVars, PowVars, StreamVars>>

\* Lines 193 and 209: write_all of the public key, big-endian.
HsSend(p) ==
    /\ CurOp(p) = "send"
    /\ wire' = [wire EXCEPT ![Other(p)] =
                    Append(@, ClearFrame(to_be_bytes(hs[p].public_key)))]
    /\ hs' = [hs EXCEPT ![p] = [@ EXCEPT !.wrote = TRUE, !.pc = AfterOp(p)]]
    /\ UNCHANGED <<is_server, ChatVars, PowVars, StreamVars>>

\* Lines 197-199 and 203-205: read_exact of eight bytes, decoded big-endian.
HsRecv(p) ==
    /\ CurOp(p) = "recv"
    /\ Avail(wire[p]) >= 8
    /\ \E t \in {Take(wire[p], 8)} :
          /\ wire' = [wire EXCEPT ![p] = t.rest]
          /\ hs' = [hs EXCEPT ![p] =
                       [@ EXCEPT !.their_public_key = from_be_bytes(t.got.bytes),
                                 !.pc = AfterOp(p)]]
    /\ UNCHANGED <<is_server, ChatVars, PowVars, StreamVars>>

\* Line 216
HsDerive(p) ==
    /\ hs[p].pc = "derive"
    /\ hs' = [hs EXCEPT ![p] =
                 [@ EXCEPT !.secret = shared_secret(hs[p].their_public_key,
                                                   hs[p].private_key),
                           !.pc = "verify"]]
    /\ UNCHANGED <<is_server, wire, ChatVars, PowVars, StreamVars>>

\* Lines 229-236: the keystream preview, then the secret returned.
HsVerify(p) ==
    /\ hs[p].pc = "verify"
    /\ hs' = [hs EXCEPT ![p] =
                 [@ EXCEPT !.preview =
                               peek_bytes(LcgStream_new(hs[p].secret), 16).result,
                           !.pc = "returned"]]
    /\ UNCHANGED <<is_server, wire, ChatVars, PowVars, StreamVars>>

HsKeys == {U64(n) : n \in 0..MaxPrivateKey} \cup {U64(7), U64(11)}

HsNext ==
    \E p \in Peers :
        \/ HsKeyGen(p, HsKeys)
        \/ HsSend(p)
        \/ HsRecv(p)
        \/ HsDerive(p)
        \/ HsVerify(p)

SpecHs == SysInit /\ [][HsNext]_vars /\ WF_vars(HsNext)

\* dh_handshake called at the two ends with any pair of values of is_server.
RolesInit ==
    /\ is_server \in [Peers -> BOOLEAN]
    /\ hs = [p \in Peers |-> HsStart]
    /\ wire = [p \in Peers |-> <<>>]
    /\ ChatIdle
    /\ PowIdle
    /\ StreamIdle

RoleKeys == {U64(3), U64(7), U64(11)}

RolesNext ==
    \E p \in Peers :
        \/ HsKeyGen(p, RoleKeys)
        \/ HsSend(p)
        \/ HsRecv(p)
        \/ HsDerive(p)
        \/ HsVerify(p)

SpecRoles == RolesInit /\ [][RolesNext]_vars /\ WF_vars(RolesNext)

-----------------------------------------------------------------------------
(* chat_loop on both ends: the inbound thread and the outbound loop *)

Alive(p) == hs[p].pc \notin {"exited", "panicked"}

Whitespace == {9, 10, 11, 12, 13, 32}

\* str::trim
RECURSIVE trim_start(_)
trim_start(line) ==
    IF line # <<>> /\ Head(line) \in Whitespace THEN trim_start(Tail(line))
    ELSE line

RECURSIVE trim_end(_)
trim_end(line) ==
    IF line # <<>> /\ line[Len(line)] \in Whitespace
    THEN trim_end(SubSeq(line, 1, Len(line) - 1))
    ELSE line

trim(line) == trim_end(trim_start(line))

\* A message of n letters.
Text(n) == Tup([i \in 1..n |-> 104 + i])

\* The lines the operator types: messages ended by a newline, one of them
\* padded, and blank lines.
InputLines ==
    {Text(n) \o <<10>> : n \in 1..MaxFrameLen}
        \cup {<<32>> \o Text(1) \o <<13, 10>>, <<10>>, <<32, 9, 10>>}

\* A check for the empty message that never finds one
is_empty_never(msg) == FALSE

\* Line 314: msg.is_empty()
is_empty(msg) == msg = <<>>

\* The mutex around the cipher taken without waiting for it
LockFree_nowait(p) == TRUE

\* Mutex::lock returns once no other thread holds the guard.
LockFree(p) == lock[p] = "free"

\* The process gone: its threads, its socket and what was queued for it.
\* The main thread gone with the inbound thread left running
Exit_mainonly(p) ==
    /\ hs' = [hs EXCEPT ![p] = [@ EXCEPT !.pc = "exited"]]
    /\ inb' = inb
    /\ outb' = [outb EXCEPT ![p] = OutbIdle("done")]
    /\ lock' = [lock EXCEPT ![p] = "free"]
    /\ wire' = [wire EXCEPT ![p] = <<>>]

Exit(p) ==
    /\ hs' = [hs EXCEPT ![p] = [@ EXCEPT !.pc = "exited"]]
    /\ inb' = [inb EXCEPT ![p] = InbIdle("dead")]
    /\ outb' = [outb EXCEPT ![p] = OutbIdle("done")]
    /\ lock' = [lock EXCEPT ![p] = "free"]
    /\ wire' = [wire EXCEPT ![p] = <<>>]

\* The chat run on the stream the preview was drawn from
ChatStart_previewed(p) ==
    /\ hs[p].pc = "returned"
    /\ hs' = [hs EXCEPT ![p] = [@ EXCEPT !.pc = "chat"]]
    /\ cipher' = [cipher EXCEPT ![p] = drain(LcgStream_new(hs[p].secret), 16).stream]
    /\ inb' = [inb EXCEPT ![p] = InbIdle("read")]
    /\ outb' = [outb EXCEPT ![p] = OutbIdle("input")]
    /\ UNCHANGED <<is_server, wire, lock, framed, frame_bytes, nframes,
                   tally,
                   PowVars, StreamVars>>

\* Lines 240-245: the cipher seeded with the secret, the inbound thread
\* spawned.
ChatStart(p) ==
    /\ hs[p].pc = "returned"
    /\ hs' = [hs EXCEPT ![p] = [@ EXCEPT !.pc = "chat"]]
    /\ cipher' = [cipher EXCEPT ![p] = LcgStream_new(hs[p].secret)]
    /\ inb' = [inb EXCEPT ![p] = InbIdle("read")]
    /\ outb' = [outb EXCEPT ![p] = OutbIdle("input")]
    /\ UNCHANGED <<is_server, wire, lock, framed, frame_bytes, nframes,
                   tally,
                   PowVars, StreamVars>>

\* Lines 308-316: a line read and trimmed; a line that is empty then starts
\* the loop over. nframes counts the lines read, blank or not.
LineRead(p, lines) ==
    /\ outb[p].pc = "input"
    /\ nframes < MaxFrames
    /\ \E line \in lines : \E msg \in {trim(line)} :
          outb' = IF is_empty(msg)
                  THEN outb
                  ELSE [outb EXCEPT ![p] =
                           [@ EXCEPT !.pc = "lock", !.plain_bytes = msg]]
    /\ nframes' = nframes + 1
    /\ UNCHANGED <<is_server, hs, wire, cipher, lock, inb, framed, frame_bytes,
                   tally,
                   PowVars, StreamVars>>

OutReadLine(p) == LineRead(p, InputLines)

\* Lines 309 and 311: end of input or an input error ends the loop, and with
\* it the process.
OutEof(p) ==
    /\ outb[p].pc = "input"
    /\ Exit(p)
    /\ UNCHANGED <<is_server, cipher, framed, frame_bytes, nframes,
                   tally,
                   PowVars, StreamVars>>

\* The bytes the inbound thread of p has decrypted so far.
DecryptedBytes(p) == cipher[p].total_consumed - tally.encrypted[p]

\* p starts to encrypt while the other end has a frame under way that p has
\* not decrypted to its end.
Crossing(p) ==
    \/ outb[Other(p)].pc = "loop"
    \/ tally.encrypted[Other(p)] > DecryptedBytes(p)

\* Lines 322-325
OutLock(p) ==
    /\ outb[p].pc = "lock"
    /\ LockFree(p)
    /\ lock' = [lock EXCEPT ![p] = "out"]
    /\ outb' = [outb EXCEPT ![p] =
                   [@ EXCEPT !.pc = "loop",
                             !.start_pos = cipher[p].total_consumed]]
    /\ tally' = [tally EXCEPT !.crossed = @ \/ Crossing(p)]
    /\ UNCHANGED <<is_server, hs, wire, cipher, inb, framed, frame_bytes,
                   nframes,
                   PowVars, StreamVars>>

\* Lines 327-331, one iteration
OutByte(p) ==
    /\ outb[p].pc = "loop"
    /\ Len(outb[p].cipher) < Len(outb[p].plain_bytes)
    /\ \E e \in {encrypt_byte(cipher[p],
                              outb[p].plain_bytes[Len(outb[p].cipher) + 1])} :
          /\ cipher' = [cipher EXCEPT ![p] = e.stream]
          /\ outb' = [outb EXCEPT ![p] =
                         [@ EXCEPT !.cipher = Append(@, e.out),
                                   !.key_bytes = Append(@, e.key),
                                   !.pos = Append(@, cipher[p].total_consumed)]]
          /\ tally' = [tally EXCEPT !.encrypted[p] = @ + 1]
    /\ UNCHANGED <<is_server, hs, wire, lock, inb, framed, frame_bytes,
                   nframes, PowVars, StreamVars>>

\* The ciphertext sent behind a byte that tells its length
Written_prefixed(o) ==
    Frame(<<Len(o.cipher)>> \o o.cipher, <<-1>> \o o.plain_bytes, <<-1>> \o o.pos)

\* Line 344: what write_all is given, the ciphertext and nothing else.
Written(o) == Frame(o.cipher, o.plain_bytes, o.pos)

\* Lines 344-348: write_all succeeds and the guard is dropped at the end of
\* the iteration. What is written to a closed peer goes nowhere.
OutWrite(p) ==
    /\ outb[p].pc = "loop"
    /\ Len(outb[p].cipher) = Len(outb[p].plain_bytes)
    /\ wire' = [wire EXCEPT ![Other(p)] =
                    IF Alive(Other(p))
                    THEN Append(@, Written(outb[p]))
                    ELSE @]
    /\ lock' = [lock EXCEPT ![p] = "free"]
    /\ frame_bytes' = [frame_bytes EXCEPT ![p] = @ + Len(Written(outb[p]).bytes)]
    /\ outb' = [outb EXCEPT ![p] = OutbIdle("input")]
    /\ tally' = [tally EXCEPT !.written[p] = @ + Len(Written(outb[p]).bytes)]
    /\ UNCHANGED <<is_server, hs, cipher, inb, framed, nframes,
                   PowVars, StreamVars>>

\* Lines 344-346: write_all fails on a connection the peer has closed.
OutWriteErr(p) ==
    /\ outb[p].pc = "loop"
    /\ Len(outb[p].cipher) = Len(outb[p].plain_bytes)
    /\ ~Alive(Other(p))
    /\ Exit(p)
    /\ UNCHANGED <<is_server, cipher, framed, frame_bytes, nframes,
                   tally,
                   PowVars, StreamVars>>

Min(a, b) == IF a < b THEN a ELSE b

\* Lines 248-256: read returns some of the bytes queued, at most the buffer.
ChunkRead(p, size) ==
    /\ inb[p].pc = "read"
    /\ \E n \in 1..Min(Avail(wire[p]), size) : \E t \in {Take(wire[p], n)} :
          /\ wire' = [wire EXCEPT ![p] = t.rest]
          /\ inb' = [inb EXCEPT ![p] =
                        [@ EXCEPT !.pc = "lock", !.cipher = t.got.bytes,
                                  !.src_plain = t.got.plain,
                                  !.src_pos = t.got.pos]]
          /\ framed' = (framed /\ t.whole)
    /\ UNCHANGED <<is_server, hs, cipher, lock, outb, frame_bytes, nframes,
                   tally,
                   PowVars, StreamVars>>

InRead(p) == ChunkRead(p, BufLen)

\* Lines 249 and 297: end of stream or a read error ends the thread.
InBreak(p) ==
    /\ inb[p].pc = "read"
    /\ wire[p] = <<>>
    /\ ~Alive(Other(p))
    /\ inb' = [inb EXCEPT ![p] = InbIdle("done")]
    /\ UNCHANGED <<is_server, hs, wire, cipher, lock, outb, framed,
                   frame_bytes, nframes, tally,
                   PowVars, StreamVars>>

\* The inbound thread starting every read on a fresh keystream word
InLock_realign(p) ==
    /\ inb[p].pc = "lock"
    /\ LockFree(p)
    /\ lock' = [lock EXCEPT ![p] = "in"]
    /\ cipher' = [cipher EXCEPT ![p] =
                     [@ EXCEPT !.buffer = <<>>,
                               !.total_consumed = 4 * ((@ + 3) \div 4)]]
    /\ inb' = [inb EXCEPT ![p] =
                  [@ EXCEPT !.pc = "loop",
                            !.start_pos = 4 * ((cipher[p].total_consumed + 3) \div 4)]]
    /\ UNCHANGED <<is_server, hs, wire, outb, framed, frame_bytes,
                   nframes, tally,
                   PowVars, StreamVars>>

\* Lines 258-261
InLock(p) ==
    /\ inb[p].pc = "lock"
    /\ LockFree(p)
    /\ lock' = [lock EXCEPT ![p] = "in"]
    /\ inb' = [inb EXCEPT ![p] =
                  [@ EXCEPT !.pc = "loop",
                            !.start_pos = cipher[p].total_consumed]]
    /\ UNCHANGED <<is_server, hs, wire, cipher, outb, framed, frame_bytes,
                   nframes, tally,
                   PowVars, StreamVars>>

\* Lines 263-267, one iteration
InByte(p) ==
    /\ inb[p].pc = "loop"
    /\ Len(inb[p].plain) < Len(inb[p].cipher)
    /\ \E d \in {decrypt_byte(cipher[p], inb[p].cipher[Len(inb[p].plain) + 1])} :
          /\ cipher' = [cipher EXCEPT ![p] = d.stream]
          /\ inb' = [inb EXCEPT ![p] =
                        [@ EXCEPT !.plain = Append(@, d.out),
                                  !.key_bytes = Append(@, d.key),
                                  !.pos = Append(@, cipher[p].total_consumed)]]
          /\ tally' = [tally EXCEPT !.in_step =
                           @ /\ cipher[p].total_consumed
                                   = inb[p].src_pos[Len(inb[p].plain) + 1]]
    /\ UNCHANGED <<is_server, hs, wire, lock, outb, framed, frame_bytes,
                   nframes, PowVars, StreamVars>>

\* The inbound thread starting a new cipher after every read
InUnlock_reset(p) ==
    /\ inb[p].pc = "loop"
    /\ Len(inb[p].plain) = Len(inb[p].cipher)
    /\ lock' = [lock EXCEPT ![p] = "free"]
    /\ cipher' = [cipher EXCEPT ![p] = LcgStream_new(hs[p].secret)]
    /\ frame_bytes' = [frame_bytes EXCEPT ![p] = @ + Len(inb[p].cipher)]
    /\ inb' = [inb EXCEPT ![p] = InbIdle("read")]
    /\ UNCHANGED <<is_server, hs, wire, outb, framed, nframes,
                   tally,
                   PowVars, StreamVars>>

\* The guard kept by the inbound thread when it goes back to read
InUnlock_keep(p) ==
    /\ inb[p].pc = "loop"
    /\ Len(inb[p].plain) = Len(inb[p].cipher)
    /\ frame_bytes' = [frame_bytes EXCEPT ![p] = @ + Len(inb[p].cipher)]
    /\ inb' = [inb EXCEPT ![p] = InbIdle("read")]
    /\ UNCHANGED <<is_server, hs, wire, cipher, lock, outb, framed, nframes,
                   tally,
                   PowVars, StreamVars>>

\* Lines 269-296: the message shown, the guard dropped at the end of the arm.
InUnlock(p) ==
    /\ inb[p].pc = "loop"
    /\ Len(inb[p].plain) = Len(inb[p].cipher)
    /\ lock' = [lock EXCEPT ![p] = "free"]
    /\ frame_bytes' = [frame_bytes EXCEPT ![p] = @ + Len(inb[p].cipher)]
    /\ inb' = [inb EXCEPT ![p] = InbIdle("read")]
    /\ UNCHANGED <<is_server, hs, wire, cipher, outb, framed, nframes,
                   tally,
                   PowVars, StreamVars>>

\* The private keys of the chat sessions explored: a = 7 and b = 11.
ChatKeys(p) == IF p = "server" THEN {U64(7)} ELSE {U64(11)}

Next ==
    \E p \in Peers :
        \/ HsKeyGen(p, ChatKeys(p))
        \/ HsSend(p)
        \/ HsRecv(p)
        \/ HsDerive(p)
        \/ HsVerify(p)
        \/ ChatStart(p)
        \/ OutReadLine(p)
        \/ OutEof(p)
        \/ OutLock(p)
        \/ OutByte(p)
        \/ OutWrite(p)
        \/ OutWriteErr(p)
        \/ InRead(p)
        \/ InBreak(p)
        \/ InLock(p)
        \/ InByte(p)
        \/ InUnlock(p)

Spec == SysInit /\ [][Next]_vars

\* The steps the two processes take without their operators: everything but
\* a line typed and the end of the input.
Threads ==
    \E p \in Peers :
        \/ HsKeyGen(p, ChatKeys(p))
        \/ HsSend(p)
        \/ HsRecv(p)
        \/ HsDerive(p)
        \/ HsVerify(p)
        \/ ChatStart(p)
        \/ OutLock(p)
        \/ OutByte(p)
        \/ OutWrite(p)
        \/ OutWriteErr(p)
        \/ InRead(p)
        \/ InBreak(p)
        \/ InLock(p)
        \/ InByte(p)
        \/ InUnlock(p)

\* The operators type, or end their input, when they please; the threads
\* are scheduled.
SpecLive == Spec /\ WF_vars(Threads)

-----------------------------------------------------------------------------
(* The chat over a connection that holds a bounded number of bytes *)

\* The bytes a connection holds in one direction between a write and the
\* reads that take them: room for the eight bytes of a public key.
WireCap == 8

\* The read buffer of the inbound thread, scaled down with the connection.
ReadCap == 1

\* Lines that do not fit in the connection and one read together.
LongLines == {Text(WireCap + ReadCap + 1) \o <<10>>}

OutReadLong(p) == LineRead(p, LongLines)

InReadSmall(p) == ChunkRead(p, ReadCap)

Room(q) == WireCap - Avail(wire[q])

\* The bytes of o from the k-th on, the first k - 1 having been written.
Unwritten(o, k) ==
    [o EXCEPT !.cipher = SubSeq(@, k, Len(@)),
              !.plain_bytes = SubSeq(@, k, Len(@)),
              !.key_bytes = SubSeq(@, k, Len(@)),
              !.pos = SubSeq(@, k, Len(@))]

\* Line 344 on a full connection: write_all hands over as many bytes as the
\* connection has room for and waits, the guard of line 322 still held, for
\* room for the rest; with the last byte written the iteration ends and the
\* guard is dropped.
OutWriteSome(p) ==
    /\ outb[p].pc = "loop"
    /\ Len(outb[p].cipher) = Len(outb[p].plain_bytes)
    /\ Room(Other(p)) > 0
    /\ \E k \in {Min(Room(Other(p)), Len(outb[p].cipher))} :
          /\ wire' = [wire EXCEPT ![Other(p)] =
                          Append(@, Frame(SubSeq(outb[p].cipher, 1, k),
                                          SubSeq(outb[p].plain_bytes, 1, k),
                                          SubSeq(outb[p].pos, 1, k)))]
          /\ outb' = [outb EXCEPT ![p] =
                         IF k = Len(outb[p].cipher)
                         THEN OutbIdle("input")
                         ELSE Unwritten(@, k + 1)]
          /\ lock' = [lock EXCEPT ![p] =
                         IF k = Len(outb[p].cipher) THEN "free" ELSE @]
          /\ frame_bytes' = [frame_bytes EXCEPT ![p] = @ + k]
          /\ tally' = [tally EXCEPT !.written[p] = @ + k]
    /\ UNCHANGED <<is_server, hs, cipher, inb, framed, nframes,
                   PowVars, StreamVars>>

BoundedNext ==
    \E p \in Peers :
        \/ HsKeyGen(p, ChatKeys(p))
        \/ HsSend(p)
        \/ HsRecv(p)
        \/ HsDerive(p)
        \/ HsVerify(p)
        \/ ChatStart(p)
        \/ OutReadLong(p)
        \/ OutLock(p)
        \/ OutByte(p)
        \/ OutWriteSome(p)
        \/ InReadSmall(p)
        \/ InLock(p)
        \/ InByte(p)
        \/ InUnlock(p)

SpecBounded == SysInit /\ [][BoundedNext]_vars

-----------------------------------------------------------------------------
(* dh_handshake on a connection that can be lost *)

\* The first n bytes queued on w, as the single frame that is left of them.
Truncated(w, n) == IF n = 0 THEN <<>> ELSE <<Take(w, n).got>>

\* The process of p killed, or its connection lost, during the handshake or
\* right after it: of what p has written, any prefix may still arrive.
\* closed_unread records that the other side had not read the key by then.
HsAbort(p) ==
    /\ hs[p].pc \in {"keygen", "first", "second", "derive", "verify", "returned"}
    /\ Alive(Other(p))
    /\ hs' = [hs EXCEPT ![p] = [@ EXCEPT !.pc = "exited"],
                         ![Other(p)] =
                             [@ EXCEPT !.closed_unread =
                                           (hs[Other(p)].their_public_key = Unset)]]
    /\ \E n \in 0..Avail(wire[Other(p)]) :
          wire' = [wire EXCEPT ![p] = <<>>,
                               ![Other(p)] = Truncated(wire[Other(p)], n)]
    /\ UNCHANGED <<is_server, ChatVars, PowVars, StreamVars>>

\* A short read answered with a zeroed buffer instead of a failure
HsRecvFail_ignore(p) ==
    /\ CurOp(p) = "recv"
    /\ Avail(wire[p]) < 8
    /\ ~Alive(Other(p))
    /\ hs' = [hs EXCEPT ![p] = [@ EXCEPT !.their_public_key = from_be_bytes(U64(0)),
                                         !.pc = AfterOp(p)]]
    /\ wire' = [wire EXCEPT ![p] = <<>>]
    /\ UNCHANGED <<is_server, ChatVars, PowVars, StreamVars>>

\* Lines 197 and 203: read_exact meets the end of the stream before eight
\* bytes, and unwrap panics.
HsRecvFail(p) ==
    /\ CurOp(p) = "recv"
    /\ Avail(wire[p]) < 8
    /\ ~Alive(Other(p))
    /\ hs' = [hs EXCEPT ![p] = [@ EXCEPT !.pc = "panicked"]]
    /\ wire' = [wire EXCEPT ![p] = <<>>]
    /\ UNCHANGED <<is_server, ChatVars, PowVars, StreamVars>>

\* Lines 193 and 209: write_all fails on the closed connection, and unwrap
\* panics.
HsSendFail(p) ==
    /\ CurOp(p) = "send"
    /\ ~Alive(Other(p))
    /\ hs' = [hs EXCEPT ![p] = [@ EXCEPT !.pc = "panicked"]]
    /\ wire' = [wire EXCEPT ![p] = <<>>]
    /\ UNCHANGED <<is_server, ChatVars, PowVars, StreamVars>>

\* What the two processes do by themselves.
HsFailOwn ==
    \E p \in Peers :
        \/ HsKeyGen(p, ChatKeys(p))
        \/ HsSend(p)
        \/ HsRecv(p)
        \/ HsDerive(p)
        \/ HsVerify(p)
        \/ ChatStart(p)
        \/ HsRecvFail(p)
        \/ HsSendFail(p)

HsFailNext == HsFailOwn \/ \E p \in Peers : HsAbort(p)

SpecHsFail == SysInit /\ [][HsFailNext]_vars /\ WF_vars(HsFailOwn)

-----
(* Reference values for mod_pow *)

\* The value of a limb sequence below 2^24.
ToNat(a) == a[1] + 256 * a[2] + 65536 * a[3]

IsSmall(a) == EffLen(a) <= 2

\* b^e on the naturals (0^0 = 1).
NatPow(b, e) == IF e = 0 THEN 1 ELSE b ^ e

\* base^e mod modulus from b^(x + y) = b^x * b^y, every product taken exactly
\* (in 16 limbs) before it is reduced.
RECURSIVE RefPow(_, _, _)
RefPow(base, e, modulus) ==
    IF e = 0 THEN Rem(U64(1), modulus)
    ELSE IF e = 1 THEN Rem(base, modulus)
    ELSE CHOOSE y \in
            {Cast(Rem(WrappingMul(Cast(x[1], 16), Cast(x[2], 16), 16),
                      Cast(modulus, 16)), 8)
             : x \in {<<RefPow(base, e \div 2, modulus),
                        RefPow(base, e - (e \div 2), modulus)>>}} : TRUE

\* x * y needs no more than 16 limbs.
FitsU128(x, y) ==
    EffLen(WrappingMul(Cast(x, 32), Cast(y, 32), 32)) <= 16

\* 1 % m, for m >= 1.
OneMod(m) == IF m = U64(1) THEN U64(0) ELSE U64(1)

PowDone == mp.pc = "done"

\* C8: for modulus >= 2 the result of mod_pow is below the modulus, and
\* mod_pow(base, 0, modulus) is 1 % modulus.
C8_ModPowRange ==
    (PowDone /\ Ge(mp_in.modulus, U64(2))) =>
        /\ Lt(mp.result, mp_in.modulus)
        /\ (mp_in.exp = U64(0) => mp.result = OneMod(mp_in.modulus))

C8_Witness ==
    /\ PowDone
    /\ mp_in = [base |-> MaxU64, exp |-> U64(0), modulus |-> P]
    /\ mp.result = U64(1)

\* The result of a finished run is base^exp mod modulus (0 for modulus 1),
\* for the exponents small enough to be multiplied out.
PowValueOk ==
    (PowDone /\ IsSmall(mp_in.exp)) =>
        /\ mp.result = RefPow(mp_in.base, ToNat(mp_in.exp), mp_in.modulus)
        /\ (IsSmall(mp_in.base) /\ IsSmall(mp_in.modulus) /\ ToNat(mp_in.exp) <= 8) =>
              mp.result = U64(NatPow(ToNat(mp_in.base), ToNat(mp_in.exp))
                               % ToNat(mp_in.modulus))

\* The products the next iteration takes fit the double width.
PowNoOverflow ==
    mp.pc = "loop" =>
        /\ FitsU128(mp.result, mp.base)
        /\ FitsU128(mp.base, mp.base)
        /\ Lt(mp.result, mp.modulus)
        /\ Lt(mp.base, mp.modulus)

\* C9: mod_pow(base, exp, modulus) is base^exp mod modulus (0 when modulus
\* is 1), no intermediate product overflows the double width, and the loop
\* terminates for every exponent.
C9_ModPowCorrect == [](PowValueOk /\ PowNoOverflow) /\ <>PowDone

C9_Witness ==
    /\ PowDone
    /\ mp_in = [base |-> MaxU64, exp |-> U64(5), modulus |-> P]
    /\ mp.result = <<28, 227, 137, 91, 110, 193, 193, 167>>

-----------------------------------------------------------------------------
(* The stream cipher *)

\* C6: encrypting a message and decrypting the result with a cipher whose
\* cursor is at the same starting state gives the message back, and the
\* ciphertext has the length of the plaintext.
C6_RoundTrip ==
    kh.op = "rt" => (kh.d = kh.m /\ Len(kh.c) = Len(kh.m))

C6_Witness ==
    /\ kh.op = "rt"
    /\ Len(kh.m) = 2
    /\ kh.pre.total_consumed = 3
    /\ kh.c # kh.m
    /\ kh.d = kh.m

\* C7: peek_bytes(n) leaves the generator state, the buffer and
\* total_consumed as they were and returns n bytes; the get_byte calls that
\* follow return those bytes in order, each advancing total_consumed by one.
C7_PeekPure ==
    /\ kh.op = "peek" => (ks = kh.pre /\ Len(kh.peeked) = kh.n)
    /\ kh.tracking =>
          /\ Len(kh.got) <= Len(kh.peeked)
          /\ kh.got = SubSeq(kh.peeked, 1, Len(kh.got))
          /\ ks.total_consumed = kh.tc0 + Len(kh.got)

C7_Witness ==
    /\ kh.tracking
    /\ kh.op = "get"
    /\ kh.n = 6
    /\ kh.got = kh.peeked
    /\ kh.tc0 = 2
    /\ ks.total_consumed = 8

-----------------------------------------------------------------------------
(* The key exchange *)

HasSecret(p) == hs[p].secret # Unset

BothReturned == \A p \in Peers : hs[p].pc = "returned"

\* Blocked in read_exact with fewer than eight bytes queued.
Blocked(p) == CurOp(p) = "recv" /\ Avail(wire[p]) < 8

SecretsAgree ==
    (HasSecret("server") /\ HasSecret("client")) =>
        /\ hs["server"].secret = hs["client"].secret
        /\ hs["server"].secret =
              mod_pow(hs["client"].public_key, hs["server"].private_key, P)
        /\ hs["client"].secret =
              mod_pow(hs["server"].public_key, hs["client"].private_key, P)

\* C1: whatever private keys the two ends draw, both runs of dh_handshake
\* complete and return the same secret,
\* mod_pow(pub_client, a, P) = mod_pow(pub_server, b, P).
C1_SameSecret == []SecretsAgree /\ <>[]BothReturned

C1_Witness ==
    /\ BothReturned
    /\ hs["server"].private_key = U64(3)
    /\ hs["client"].private_key = U64(11)
    /\ hs["server"].secret = hs["client"].secret
    /\ hs["server"].secret = <<0, 0, 0, 0, 2, 0, 0, 0>>

HandshakeOrder ==
    /\ \A p \in Peers :
          /\ (is_server[p] /\ hs[p].their_public_key # Unset) => hs[p].wrote
          /\ (~is_server[p] /\ hs[p].wrote) => hs[p].their_public_key # Unset
    /\ \A p \in Peers : \A i \in 1..Len(wire[p]) : Len(wire[p][i].bytes) = 8
    /\ ~(Blocked("server") /\ Blocked("client"))

\* C2: the responder writes its eight-byte public key before it reads, the
\* initiator reads before it writes, the two ends are never both blocked in
\* a read, and both eventually return from the handshake.
C2_HandshakeCompletes == []HandshakeOrder /\ <>BothReturned

C2_Witness ==
    /\ hs["server"].pc = "second"
    /\ hs["server"].wrote
    /\ hs["client"].pc = "second"
    /\ ~hs["client"].wrote
    /\ wire["client"] = <<>>
    /\ Blocked("server")

SecretIsPower ==
    /\ \A p \in Peers :
          hs[p].public_key # Unset =>
              /\ hs[p].public_key = mod_pow(G, hs[p].private_key, P)
              /\ hs[p].public_key = RefPow(G, ToNat(hs[p].private_key), P)
    /\ \A p \in Peers :
          HasSecret(p) =>
              /\ hs[p].secret =
                    RefPow(G, ToNat(hs[p].private_key)
                              * ToNat(hs[Other(p)].private_key), P)
              /\ hs[p].secret =
                    mod_pow(G, U64(ToNat(hs[p].private_key)
                                   * ToNat(hs[Other(p)].private_key)), P)
    /\ (/\ hs["server"].private_key = U64(7)
        /\ hs["client"].private_key = U64(11)) =>
          \A p \in Peers :
              HasSecret(p) => /\ hs[p].secret = mod_pow(U64(2), U64(77), P)
                              /\ hs[p].secret = Secret77

\* C10: the public keys are mod_pow(G, a, P) and mod_pow(G, b, P), the
\* secret both ends derive is G^(a*b) mod P, and with a = 7 and b = 11 both
\* return mod_pow(2, 77, P).
C10_SecretIsPower == SecretIsPower

C10_Witness ==
    /\ BothReturned
    /\ hs["server"].private_key = U64(7)
    /\ hs["client"].private_key = U64(11)
    /\ hs["server"].public_key = U64(128)
    /\ hs["client"].public_key = U64(2048)
    /\ hs["server"].secret = Secret77
    /\ hs["client"].secret = Secret77

-----------------------------------------------------------------------------
(* The shared keystream cursor *)

Chatting(p) == hs[p].pc = "chat"

\* The inbound thread of p has decrypted all of what it read.
Decrypted(p) ==
    inb[p].pc = "loop" /\ Len(inb[p].plain) = Len(inb[p].cipher)

\* The outbound loop of p has encrypted all of its message.
Encrypted(p) ==
    outb[p].pc = "loop" /\ Len(outb[p].cipher) = Len(outb[p].plain_bytes)

Contiguous(pos, start) == \A j \in 1..Len(pos) : pos[j] = start + j - 1

\* C3: on a transport where every read returns exactly one written frame,
\* whatever the interleaving of sends and receives on the two peers, each
\* frame is decrypted at the keystream positions it was encrypted at and
\* decrypts to the plaintext that was sent.
C3_CursorsInStep ==
    \A p \in Peers :
        (framed /\ Decrypted(p)) =>
            /\ inb[p].plain = inb[p].src_plain
            /\ inb[p].pos = inb[p].src_pos

\* C4: the guard is taken before the first get_byte of a frame and held
\* until after its last, in both threads, so the keystream positions used
\* for one frame are start_pos, start_pos + 1, ... with no byte of another
\* frame among them.
C4_FrameAtomic ==
    \A p \in Peers :
        /\ outb[p].pc = "loop" =>
              /\ lock[p] = "out"
              /\ Len(outb[p].pos) = Len(outb[p].cipher)
              /\ Contiguous(outb[p].pos, outb[p].start_pos)
              /\ cipher[p].total_consumed = outb[p].start_pos + Len(outb[p].pos)
        /\ inb[p].pc = "loop" =>
              /\ lock[p] = "in"
              /\ Len(inb[p].pos) = Len(inb[p].plain)
              /\ Contiguous(inb[p].pos, inb[p].start_pos)
              /\ cipher[p].total_consumed = inb[p].start_pos + Len(inb[p].pos)
        /\ \A i \in 1..Len(wire[p]) :
              wire[p][i].pos[1] >= 0 =>
                  Contiguous(wire[p][i].pos, wire[p][i].pos[1])

C4_Witness ==
    \E p \in Peers :
        /\ inb[p].pc = "loop"
        /\ Len(inb[p].cipher) = 2
        /\ Len(inb[p].plain) = 1
        /\ outb[p].pc = "lock"
        /\ cipher[p].total_consumed = 1

\* Keystream bytes drawn for the frame a thread of p is working on.
InProgress(p) ==
    (IF outb[p].pc = "loop" THEN Len(outb[p].cipher) ELSE 0)
        + (IF inb[p].pc = "loop" THEN Len(inb[p].plain) ELSE 0)

\* C5: total_consumed of a peer's cipher is the sum of the lengths of all
\* frames the peer has encrypted and decrypted, and each encryption or
\* decryption advances it by exactly the length of its frame.
C5_ConsumedIsFrameBytes ==
    \A p \in Peers :
        Chatting(p) =>
            /\ cipher[p].total_consumed = frame_bytes[p] + InProgress(p)
            /\ Encrypted(p) =>
                  cipher[p].total_consumed
                      = outb[p].start_pos + Len(outb[p].plain_bytes)
            /\ Decrypted(p) =>
                  cipher[p].total_consumed
                      = inb[p].start_pos + Len(inb[p].cipher)

C5_Witness ==
    \E p \in Peers :
        /\ Chatting(p)
        /\ Decrypted(p)
        /\ Len(inb[p].cipher) = 2
        /\ inb[p].start_pos = 2
        /\ frame_bytes[p] = 2
        /\ cipher[p].total_consumed = 4

-----------------------------------------------------------------------------
(* The keystream against the recurrence on 16-bit halves *)

\* (1103515245 * x + 12345) mod 2^32 for x = <<high half, low half>>, with
\* 1103515245 = 16838 * 2^16 + 20077.
RefLcgNext(x) ==
    LET low == 20077 * x[2] + 12345
    IN  <<((low \div 65536) + ((16838 * x[2]) % 65536) + ((20077 * x[1]) % 65536))
              % 65536,
          low % 65536>>

\* The n-th value of the recurrence started from x.
RECURSIVE RefLcgValue(_, _)
RefLcgValue(x, n) == IF n = 0 THEN x ELSE RefLcgValue(RefLcgNext(x), n - 1)

\* The low 32 bits of a seed as <<high half, low half>>.
SeedHalves(seed) == <<seed[3] + 256 * seed[4], seed[1] + 256 * seed[2]>>

\* Four bytes, most significant first.
RefBytes(x) == <<x[1] \div 256, x[1] % 256, x[2] \div 256, x[2] % 256>>

\* The keystream byte at position pos (from 0).
RefKeyByte(seed, pos) ==
    RefBytes(RefLcgValue(SeedHalves(seed), (pos \div 4) + 1))[(pos % 4) + 1]

\* C11: the byte get_byte returns at position n is byte n of the
\* concatenated big-endian encodings of the successive values of
\* state' = (1103515245 * (state mod 2^32) + 12345) mod 2^32 from the seed;
\* get_byte advances the generator once exactly when the buffer is empty and
\* returns the oldest buffered byte; seed 0 starts with 00 00 30 39.
C11_Keystream ==
    kh.op = "get" =>
        /\ kh.byte = RefKeyByte(kh.seed, kh.pre.total_consumed)
        /\ IF kh.pre.buffer = <<>>
           THEN /\ SeedHalves(ks.lcg.state)
                      = RefLcgNext(SeedHalves(kh.pre.lcg.state))
                /\ ks.lcg.state[5] + ks.lcg.state[6] + ks.lcg.state[7]
                      + ks.lcg.state[8] = 0
                /\ <<kh.byte>> \o ks.buffer = RefBytes(SeedHalves(ks.lcg.state))
           ELSE /\ ks.lcg = kh.pre.lcg
                /\ <<kh.byte>> \o ks.buffer = kh.pre.buffer
        /\ (kh.seed = U64(0) /\ kh.pre.total_consumed < 4) =>
              kh.byte = <<0, 0, 48, 57>>[kh.pre.total_consumed + 1]

C11_Witness ==
    /\ kh.op = "get"
    /\ kh.seed = U64(0)
    /\ kh.pre.total_consumed = 3
    /\ kh.byte = 57
    /\ ks.buffer = <<>>

-----------------------------------------------------------------------------
(* The handshake on a lost connection *)

Panicked(p) == hs[p].pc = "panicked"

\* The connection is closed and p has not read the peer's public key.
ClosedUnread(p) ==
    Alive(p) /\ ~Alive(Other(p)) /\ hs[p].their_public_key = Unset

\* The connection is closed with the peer's public key neither read by p nor
\* fully queued for it.
CutShort(p) == ClosedUnread(p) /\ Avail(wire[p]) < 8

NoSession(p) ==
    ~HasSecret(p) /\ hs[p].pc \notin {"returned", "chat"} /\ inb[p].pc = "unborn"

\* C12 as stated: a peer that had not read the eight bytes of the other
\* side's public key when the connection was closed has no secret and has
\* not started the chat loop.
C12_ClosedBeforeRead ==
    \A p \in Peers : hs[p].closed_unread => NoSession(p)

\* C12, amended: once the connection is closed with fewer than eight bytes
\* of the peer's public key left for p to read, the handshake of p panics,
\* stays failed, and p never has a secret nor starts the chat loop.
C12_ShortReadFatal ==
    \A p \in Peers :
        /\ [](CutShort(p) => []NoSession(p))
        /\ CutShort(p) ~> Panicked(p)
        /\ [](Panicked(p) => [](Panicked(p) /\ NoSession(p)))

C12_Witness ==
    /\ Panicked("client")
    /\ hs["server"].pc = "exited"
    /\ hs["server"].wrote
    /\ hs["client"].their_public_key = Unset
    /\ hs["client"].private_key = U64(11)

-----------------------------------------------------------------------------
(* The end of the inbound path *)

InboundStopped(p) == inb[p].pc = "done"

SessionEnded(p) == hs[p].pc = "exited"

\* C13: once the inbound path of a peer has stopped on a zero-length read or
\* a read error, the chat loop of that peer ends, its outbound path included.
C13_InboundEndsSession ==
    \A p \in Peers : InboundStopped(p) ~> SessionEnded(p)

-----------------------------------------------------------------------------
(* The end of the outbound path *)

OutboundStopped(p) == outb[p].pc = "done"

\* C14: the step that stops the outbound path (end of input, an input error
\* or a failed write) is taken from the prompt or from the write, tries
\* nothing again, and ends the whole process with it, the inbound thread
\* included wherever it stands; a stopped outbound path stays stopped.
C14_OutboundEndsProcess ==
    [][\A p \in Peers :
          /\ (~OutboundStopped(p) /\ OutboundStopped(p)')
                => /\ outb[p].pc \in {"input", "loop"}
                   /\ outb[p].pc = "loop" => ~Alive(Other(p))
                   /\ SessionEnded(p)'
                   /\ inb'[p].pc = "dead"
                   /\ tally' = tally
                   /\ cipher' = cipher
                   /\ wire'[Other(p)] = wire[Other(p)]
          /\ OutboundStopped(p)
                => /\ OutboundStopped(p)'
                   /\ SessionEnded(p)'
                   /\ inb'[p].pc = "dead"
                   /\ tally'.written[p] = tally.written[p]
                   /\ tally'.encrypted[p] = tally.encrypted[p]]_vars

\* The server left at the end of its input while its inbound thread was
\* waiting for a first frame, and the client left on the write that failed.
C14_Witness ==
    /\ SessionEnded("server")
    /\ SessionEnded("client")
    /\ tally.written["client"] = 0
    /\ tally.encrypted["client"] > 0
    /\ tally.written["server"] > 0

-----------------------------------------------------------------------------
(* Blank lines *)

\* The outbound loop of p, at the prompt, reads a line and is at the prompt
\* again with nothing else in the system changed.
LineIgnored(p) ==
    /\ outb[p].pc = "input"
    /\ outb' = outb
    /\ cipher' = cipher
    /\ wire' = wire
    /\ lock' = lock
    /\ tally' = tally
    /\ frame_bytes' = frame_bytes
    /\ inb' = inb
    /\ hs' = hs

\* The outbound loop of p, at the prompt, reads a line and starts a frame of
\* its trimmed text, which is not empty.
LineFramed(p) ==
    /\ outb[p].pc = "input"
    /\ outb'[p].pc = "lock"
    /\ outb'[p].plain_bytes # <<>>
    /\ trim(outb'[p].plain_bytes) = outb'[p].plain_bytes
    /\ cipher' = cipher
    /\ wire' = wire

\* C15: a line read by the outbound loop either starts a frame of non-empty
\* trimmed text or, being empty after trimming, is ignored: the cipher
\* (generator state, pending bytes, total_consumed) is unchanged, nothing is
\* written, and the loop is back at the prompt; no empty frame is ever
\* started or written.
C15_EmptyLineIgnored ==
    [][/\ nframes' # nframes
          => \E p \in Peers : LineIgnored(p) \/ LineFramed(p)
       /\ \A p \in Peers :
             /\ outb'[p].pc \in {"lock", "loop"} => outb'[p].plain_bytes # <<>>
             /\ \A i \in 1..Len(wire'[p]) : Len(wire'[p][i].bytes) > 0]_vars

\* One line has been read, it was blank, and nothing has happened since.
C15_Witness ==
    /\ nframes = 1
    /\ \A p \in Peers :
          /\ Chatting(p)
          /\ outb[p] = OutbIdle("input")
          /\ cipher[p] = LcgStream_new(hs[p].secret)
          /\ tally.encrypted[p] = 0
          /\ tally.written[p] = 0
          /\ wire[p] = <<>>

-----------------------------------------------------------------------------
(* One line, one frame, one write *)

\* The bytes of the frame the outbound loop of p has encrypted and not yet
\* written.
InFlight(p) == IF outb[p].pc = "loop" THEN Len(outb[p].cipher) ELSE 0

\* What p has written is what its encrypts have consumed, the frame at hand
\* apart.
Balanced(p) ==
    Chatting(p) => tally.encrypted[p] = tally.written[p] + InFlight(p)

\* The step in which p writes chat bytes.
WriteStep(p) == tally'.written[p] # tally.written[p]

\* The frame is encrypted whole, in one run of the keystream, and written in
\* one write of exactly its ciphertext.
OneFrameOneWrite(p) ==
    /\ outb[p].pc = "loop"
    /\ outb[p].plain_bytes # <<>>
    /\ Len(outb[p].cipher) = Len(outb[p].plain_bytes)
    /\ \A i \in 1..Len(outb[p].cipher) :
          /\ outb[p].pos[i] = outb[p].start_pos + i - 1
          /\ outb[p].cipher[i] = Xor(outb[p].plain_bytes[i], outb[p].key_bytes[i])
    /\ cipher[p].total_consumed = outb[p].start_pos + Len(outb[p].plain_bytes)
    /\ tally'.written[p] = tally.written[p] + Len(outb[p].plain_bytes)
    /\ Alive(Other(p))
          => /\ Len(wire'[Other(p)]) = Len(wire[Other(p)]) + 1
             /\ wire'[Other(p)][Len(wire'[Other(p)])].bytes = outb[p].cipher
             /\ Avail(wire'[Other(p)])
                   = Avail(wire[Other(p)]) + Len(outb[p].plain_bytes)
    /\ outb'[p].pc = "input"

\* C16: a non-empty line is one frame: its text is kept whole from the
\* prompt to the write, encrypted in one run and written in one write of
\* exactly as many bytes, so that the chat bytes a peer has written are as
\* many as the keystream bytes its encrypts have consumed.
C16_OneFrameOneWrite ==
    [][\A p \in Peers :
          /\ Balanced(p)'
          /\ WriteStep(p) => OneFrameOneWrite(p)
          /\ (outb[p].pc \in {"lock", "loop"} /\ outb'[p].pc \in {"lock", "loop"})
                => outb'[p].plain_bytes = outb[p].plain_bytes]_vars

\* One line read, one frame of two bytes written by the server.
C16_Witness ==
    /\ nframes = 1
    /\ Chatting("server")
    /\ Chatting("client")
    /\ outb["server"].pc = "input"
    /\ tally.encrypted["server"] = 2
    /\ tally.written["server"] = 2
    /\ Len(wire["client"]) = 1
    /\ wire["client"][1].plain = Text(2)

-----------------------------------------------------------------------------
(* total_consumed during a session *)

\* The outbound loop of p encrypts a byte in this step.
EncByte(p) == Len(outb'[p].cipher) > Len(outb[p].cipher)

\* The inbound thread of p decrypts a byte in this step.
DecByte(p) == Len(inb'[p].plain) > Len(inb[p].plain)

\* C17: while p is in its chat session total_consumed never goes down and
\* is never set back; each byte encrypted or decrypted adds one to it, so
\* that a frame, never empty, leaves it above where it started; no other
\* step (a line read, blank or not, a lock taken or dropped, a read, a write,
\* the end of either path) changes the cipher at all.
C17_ConsumedGrows ==
    [][\A p \in Peers :
          Chatting(p)
             => /\ cipher'[p].total_consumed >= cipher[p].total_consumed
                /\ (EncByte(p) \/ DecByte(p))
                      => cipher'[p].total_consumed = cipher[p].total_consumed + 1
                /\ ~(EncByte(p) \/ DecByte(p)) => cipher'[p] = cipher[p]
                /\ (outb[p].pc = "loop" /\ outb'[p].pc # "loop")
                      => cipher[p].total_consumed > outb[p].start_pos
                /\ (inb[p].pc = "loop" /\ inb'[p].pc = "read")
                      => cipher[p].total_consumed > inb[p].start_pos]_vars

\* The server has encrypted a frame of one byte and decrypted one of two.
C17_Witness ==
    /\ Chatting("server")
    /\ cipher["server"].total_consumed = 3
    /\ tally.encrypted["server"] = 1
    /\ inb["server"].pc = "read"
    /\ outb["server"].pc = "input"

-----------------------------------------------------------------------------
(* The handshake with the two ends in the same role *)

BothReadFirst == \A p \in Peers : ~is_server[p]

BothWriteFirst == \A p \in Peers : is_server[p]

\* p has neither written its key nor read the other's, and nothing is queued
\* for it.
Stuck(p) ==
    /\ hs[p].pc \in {"keygen", "first"}
    /\ ~hs[p].wrote
    /\ hs[p].their_public_key = Unset
    /\ ~HasSecret(p)
    /\ wire[p] = <<>>

BothBlocked == \A p \in Peers : hs[p].pc = "first" /\ Blocked(p)

\* C18: with both ends reading before they write, no key is ever written
\* or read, neither end completes the handshake, and both end up blocked in
\* read_exact for good.
C18_ReadFirstDeadlock ==
    BothReadFirst => ([](\A p \in Peers : Stuck(p)) /\ <>[]BothBlocked)

C18_Witness == BothReadFirst /\ BothBlocked

\* C19 as stated: with both ends writing before they read, neither end
\* completes the handshake.
C19_WriteFirstDeadlock ==
    BothWriteFirst => \A p \in Peers : hs[p].pc # "returned"

\* C19, amended: with both ends writing before they read, both writes are
\* taken by the connection, both reads find their eight bytes, and both ends
\* complete the handshake with the same secret.
C19_WriteFirstCompletes ==
    BothWriteFirst => ([]SecretsAgree /\ <>[]BothReturned)

C19_Witness ==
    /\ BothWriteFirst
    /\ BothReturned
    /\ hs["server"].secret = hs["client"].secret
    /\ hs["server"].secret = Secret77

-----------------------------------------------------------------------------
(* Reads that do not follow the writes *)

\* Some read has returned other bytes than those of exactly one write.
Rechunked == ~framed

\* Everything written has been read and decrypted.
AllDecrypted ==
    \A p \in Peers : Chatting(p) /\ wire[p] = <<>> /\ inb[p].pc = "read"

\* Every byte decrypted so far was decrypted at the keystream position it
\* was encrypted at.
InStep == tally.in_step

\* Some peer has sent nothing: the chat traffic has gone one way only.
OneWay == \E p \in Peers : tally.encrypted[p] = 0

\* C20 as stated: once reads have split or joined the writes, some received
\* byte has been decrypted at another position than it was encrypted at.
C20_RechunkedDesync == (Rechunked /\ AllDecrypted) => ~InStep

\* C20, amended: the way reads cut the byte stream has no effect on the
\* positions: while the traffic goes one way only, every byte is decrypted
\* at the position it was encrypted at, whether the reads follow the writes,
\* split them or join them.
C20_ChunkingHarmless == OneWay => InStep

\* Three bytes, written as two frames, read otherwise and all decrypted in
\* step.
C20_Witness ==
    /\ Rechunked
    /\ AllDecrypted
    /\ InStep
    /\ tally.encrypted["client"] = 0
    /\ tally.written["server"] = 3
    /\ cipher["client"].total_consumed = 3

-----------------------------------------------------------------------------
(* What the handshake puts on the connection *)

\* The eight bytes of a 64-bit value, most significant first.
BigEndian(v) == <<v[8], v[7], v[6], v[5], v[4], v[3], v[2], v[1]>>

\* Bytes are queued for q in this step.
WireGrew(q) == Avail(wire'[q]) > Avail(wire[q])

\* q takes bytes off its queue in this step.
WireRead(q) == Avail(wire'[q]) < Avail(wire[q]) /\ Alive(q)'

LastWrite(q) == wire'[q][Len(wire'[q])]

IsClear(f) == \A i \in 1..Len(f.pos) : f.pos[i] = -1

IsChat(f) == \A i \in 1..Len(f.pos) : f.pos[i] >= 0

\* The one handshake write of p: its public key in eight bytes, and neither
\* its private key nor anything after chat bytes.
KeyWrite(p) ==
    /\ Len(wire'[Other(p)]) = Len(wire[Other(p)]) + 1
    /\ LastWrite(Other(p)).bytes = BigEndian(hs[p].public_key)
    /\ Len(LastWrite(Other(p)).bytes) = 8
    /\ IsClear(LastWrite(Other(p)))
    /\ LastWrite(Other(p)).bytes # BigEndian(hs[p].private_key)
    /\ LastWrite(Other(p)).bytes # hs[p].private_key
    /\ hs[p].public_key = mod_pow(G, hs[p].private_key, P)
    /\ hs'[p].wrote
    /\ tally.written[p] = 0
    /\ ~Chatting(p)

\* The one handshake read of p: the eight bytes at the head of its queue,
\* which are the key the other end wrote.
KeyRead(p) ==
    /\ Avail(wire[p]) - Avail(wire'[p]) = 8
    /\ wire[p][1].bytes = BigEndian(hs[Other(p)].public_key)
    /\ IsClear(wire[p][1])
    /\ wire'[p] = Tail(wire[p])
    /\ hs'[p].their_public_key = hs[Other(p)].public_key
    /\ ~Chatting(p)

\* C21: all a peer writes before its chat bytes is one write of eight
\* bytes, its public key most significant byte first and never its private
\* key; whatever it writes after that is ciphertext of the chat; all it
\* reads before its chat loop is those eight bytes of the other end, and its
\* chat loop reads ciphertext only; a peer in its chat loop has written and
\* read its eight bytes.
C21_HandshakeBytes ==
    [][\A p \in Peers :
          /\ WireGrew(Other(p))
                => IF hs[p].wrote
                   THEN Chatting(p) /\ IsChat(LastWrite(Other(p)))
                   ELSE KeyWrite(p)
          /\ WireRead(p)
                => IF hs[p].their_public_key = Unset
                   THEN KeyRead(p)
                   ELSE Chatting(p) /\ (\A i \in 1..Len(inb'[p].src_pos) : inb'[p].src_pos[i] >= 0)
                        /\ \A i \in 1..Len(wire'[p]) : IsChat(wire'[p][i])
          /\ Chatting(p)' => hs'[p].wrote /\ hs'[p].their_public_key # Unset]_vars

\* Both peers in their chat loops, the server having written a chat frame
\* that the client has read.
C21_Witness ==
    /\ Chatting("server")
    /\ Chatting("client")
    /\ tally.written["server"] > 0
    /\ inb["client"].pc = "lock"
    /\ hs["client"].their_public_key = mod_pow(G, U64(7), P)

-----------------------------------------------------------------------------
(* The cipher lock and the blocking read *)

\* The inbound thread of p is in read, or gone.
InboundInRead(p) == inb[p].pc \in {"read", "done"}

\* C22: the inbound thread holds the cipher lock only in its decrypt loop,
\* never in read; whenever it is in read, the outbound loop of the same peer
\* can take the lock when it wants it and, holding it, can encrypt its next
\* byte or write its frame.
C22_ReadWithoutLock ==
    \A p \in Peers :
        Chatting(p)
           => /\ (lock[p] = "in") <=> (inb[p].pc = "loop")
              /\ InboundInRead(p) => lock[p] # "in"
              /\ (InboundInRead(p) /\ outb[p].pc = "lock") => ENABLED OutLock(p)
              /\ (InboundInRead(p) /\ outb[p].pc = "loop")
                    => /\ lock[p] = "out"
                       /\ ENABLED (OutByte(p) \/ OutWrite(p))

\* The server encrypting a frame while its inbound thread waits in read with
\* nothing queued.
C22_Witness ==
    /\ Chatting("server")
    /\ inb["server"].pc = "read"
    /\ wire["server"] = <<>>
    /\ outb["server"].pc = "loop"
    /\ Len(outb["server"].cipher) = 1
    /\ Len(outb["server"].plain_bytes) = 2

-----------------------------------------------------------------------------
(* Traffic that never crosses *)

NeverCrossed == ~tally.crossed

\* The bytes the inbound thread of p has decrypted of the chunk it holds are
\* the plaintext bytes that were sent, decrypted at the positions and with
\* the key bytes they were encrypted with.
ChunkFaithful(p) ==
    \A i \in 1..Len(inb[p].plain) :
        /\ inb[p].plain[i] = inb[p].src_plain[i]
        /\ inb[p].pos[i] = inb[p].src_pos[i]
        /\ inb[p].key_bytes[i] = Xor(inb[p].cipher[i], inb[p].src_plain[i])

\* With nothing under way the two cursors stand at the same position.
SameCursor ==
    (\A p \in Peers : Chatting(p) /\ wire[p] = <<>> /\ inb[p].pc = "read"
                         /\ outb[p].pc \in {"input", "lock"})
        => cipher["server"].total_consumed = cipher["client"].total_consumed

\* C23: as long as no peer has started to encrypt with a frame of the other
\* end still to be decrypted, and every read has returned exactly one write,
\* each frame is decrypted at the positions it was encrypted at, from the
\* same start, and comes out as the plaintext that was sent.
C23_InOrderInStep ==
    (NeverCrossed /\ framed)
        => /\ InStep
           /\ SameCursor
           /\ \A p \in Peers :
                 /\ ChunkFaithful(p)
                 /\ (inb[p].pc = "loop" /\ inb[p].src_pos # <<>>)
                       => inb[p].start_pos = inb[p].src_pos[1]

\* A frame each way, one after the other: the client has decrypted the
\* server's frame, answered, and the server has decrypted the answer.
C23_Witness ==
    /\ NeverCrossed
    /\ framed
    /\ tally.written["server"] = 2
    /\ tally.written["client"] = 1
    /\ inb["server"].pc = "loop"
    /\ inb["server"].plain = Text(1)
    /\ inb["server"].start_pos = 2
    /\ cipher["client"].total_consumed = 3

-----------------------------------------------------------------------------
(* The chat on a full connection *)

\* The outbound loop of p is in write_all with bytes left to write and no
\* room for them, the cipher lock held.
WriteBlocked(p) ==
    /\ outb[p].pc = "loop"
    /\ lock[p] = "out"
    /\ outb[p].cipher # <<>>
    /\ Len(outb[p].cipher) = Len(outb[p].plain_bytes)
    /\ Room(Other(p)) <= 0

\* The inbound thread of p has read a chunk and waits for the cipher lock.
LockBlocked(p) == inb[p].pc = "lock" /\ lock[p] # "free"

-----------------------------------------------------------------------------
(* Traffic one way *)

\* q has encrypted nothing: whatever chat traffic there is goes to q.
Receiver(q) == Chatting(q) /\ tally.encrypted[q] = 0

\* Every byte of the chunk q has decrypted is the plaintext byte the other
\* end sent at that place of its stream: the i-th byte of the chunk is
\* byte start_pos + i of all q has received, and it is the byte the sender
\* encrypted as byte start_pos + i of all it sent.
ChunkInSequence(q) ==
    \A i \in 1..Len(inb[q].plain) :
        /\ inb[q].pos[i] = inb[q].start_pos + i - 1
        /\ inb[q].src_pos[i] = inb[q].pos[i]
        /\ inb[q].plain[i] = inb[q].src_plain[i]

\* Everything the other end wrote has been read and decrypted by q, and the
\* other end has no frame under way.
Delivered(q) ==
    /\ wire[q] = <<>>
    /\ inb[q].pc = "read"
    /\ outb[Other(q)].pc \in {"input", "lock", "done", "unborn"}

\* C25: for a peer that never encrypts, the bytes it decrypts are, in
\* order and without gap, the plaintext bytes the other end encrypted,
\* however the reads cut them; once everything written is decrypted, the two
\* ends have consumed the same number of keystream bytes, the number of
\* bytes written.
C25_OneWayStream ==
    \A q \in Peers :
        Receiver(q)
           => /\ ChunkInSequence(q)
              /\ inb[q].pc = "lock" => inb[q].src_pos[1] = cipher[q].total_consumed
              /\ Delivered(q)
                    => /\ cipher[q].total_consumed = cipher[Other(q)].total_consumed
                       /\ cipher[q].total_consumed = tally.written[Other(q)]

\* The frames "i" and "ij" of the server returned by one read and decrypted
\* by the client as "iij".
C25_Witness ==
    /\ Receiver("client")
    /\ Rechunked
    /\ inb["client"].pc = "loop"
    /\ inb["client"].plain = Text(1) \o Text(2)
    /\ cipher["server"].total_consumed = 3

-----------------------------------------------------------------------------
(* The keystream preview and the session *)

\* The key bytes of a frame are the previewed bytes at its positions.
AsPreviewed(p, key_bytes, pos) ==
    \A i \in 1..Len(key_bytes) :
        pos[i] < 16 => key_bytes[i] = hs[p].preview[pos[i] + 1]

\* The cipher as LcgStream::new(secret) leaves it.
FreshCipher(p) ==
    /\ cipher[p].lcg.state = hs[p].secret
    /\ cipher[p].buffer = <<>>
    /\ cipher[p].total_consumed = 0

\* p has not finished a frame yet, in either direction.
NoFrameYet(p) == frame_bytes[p] = 0

\* C26: the chat loop starts, after the 16-byte preview, on a cipher whose
\* generator state is the secret, whose buffer is empty and whose
\* total_consumed is 0; it stays so until the first frame, which starts at
\* position 0, and the key bytes of the session are the previewed bytes
\* from the first on.
C26_PreviewLeavesSession ==
    [][\A p \in Peers :
          /\ (~Chatting(p) /\ Chatting(p)')
                => /\ Len(hs[p].preview) = 16
                   /\ hs[p].preview = drain(LcgStream_new(hs[p].secret), 16).result
                   /\ FreshCipher(p)'
          /\ (Chatting(p) /\ NoFrameYet(p) /\ lock[p] = "free") => FreshCipher(p)
          /\ (Chatting(p) /\ NoFrameYet(p) /\ outb[p].pc = "loop")
                => outb[p].start_pos = 0
          /\ (Chatting(p) /\ NoFrameYet(p) /\ inb[p].pc = "loop")
                => inb[p].start_pos = 0
          /\ Chatting(p)
                => /\ AsPreviewed(p, outb[p].key_bytes, outb[p].pos)
                   /\ AsPreviewed(p, inb[p].key_bytes, inb[p].pos)]_vars

\* The server, in its first frame, has drawn the first previewed byte at
\* position 0.
C26_Witness ==
    /\ Chatting("server")
    /\ outb["server"].pc = "loop"
    /\ outb["server"].start_pos = 0
    /\ outb["server"].pos = <<0>>
    /\ outb["server"].key_bytes = <<hs["server"].preview[1]>>
    /\ cipher["server"].total_consumed = 1

-----------------------------------------------------------------------------
(* The seed and its low 32 bits *)

\* The seed with its high 32 bits cleared.
Low32(seed) == <<seed[1], seed[2], seed[3], seed[4], 0, 0, 0, 0>>

BelowTwoTo32(v) == v[5] = 0 /\ v[6] = 0 /\ v[7] = 0 /\ v[8] = 0

\* The stream seeded with the low 32 bits of the seed of ks and drawn from
\* as often as ks has been.
Twin == drain(LcgStream_new(Low32(kh.seed)), ks.total_consumed)

\* C27: a stream is, byte for byte, the stream that the low 32 bits of its
\* seed alone give: the same byte at every draw, the same buffer, the same
\* bytes peeked, and from the first advance on the same generator state,
\* which is below 2^32.
C27_SeedLow32 ==
    /\ ks.buffer = Twin.stream.buffer
    /\ ks.total_consumed = Twin.stream.total_consumed
    /\ ks.total_consumed > 0
          => /\ ks.lcg = Twin.stream.lcg
             /\ BelowTwoTo32(ks.lcg.state)
    /\ kh.op = "get" => kh.byte = Twin.result[ks.total_consumed]
    /\ kh.op = "peek" => kh.peeked = peek_bytes(Twin.stream, kh.n).result
    /\ kh.op = "rt" => kh.c = encrypt(drain(LcgStream_new(Low32(kh.seed)),
                                             kh.pre.total_consumed).stream,
                                       kh.m).out

\* The fourth byte drawn from the seed 2^32 is the fourth byte of the
\* seed 0.
C27_Witness ==
    /\ kh.seed = TwoTo32
    /\ kh.op = "get"
    /\ ks.total_consumed = 4
    /\ kh.byte = 57
    /\ ks.lcg.state = U64(12345)

-----------------------------------------------------------------------------
(* The pending bytes and the advances of the generator *)

\* The most advances a stream of MaxDraws bytes can have made, and one more.
MaxAdvances == (MaxDraws + 3) \div 4 + 1

\* The number of next_u32 calls that lead from lcg, reached after k calls,
\* to the generator of ks; -1 when MaxAdvances calls do not reach it.
RECURSIVE AdvancesFrom(_, _)
AdvancesFrom(lcg, k) ==
    IF lcg = ks.lcg THEN k
    ELSE IF k >= MaxAdvances THEN -1
    ELSE CHOOSE y \in {AdvancesFrom(n.lcg, k + 1) : n \in {next_u32(lcg)}} : TRUE

\* The advances the generator of ks has made since Lcg::new.
Advances == AdvancesFrom(Lcg_new(kh.seed), 0)

\* C28: between get_byte calls at most 3 bytes are pending, the bytes
\* consumed and the bytes pending add up to 4 times the advances of the
\* generator, and a get_byte call advanced the generator only if it found
\* nothing pending (and then it did, once).
C28_PendingAndAdvances ==
    /\ Len(ks.buffer) <= 3
    /\ Advances >= 0
    /\ ks.total_consumed + Len(ks.buffer) = 4 * Advances
    /\ kh.op = "get"
          => /\ ks.lcg # kh.pre.lcg <=> kh.pre.buffer = <<>>
             /\ kh.pre.buffer = <<>> => ks.lcg = next_u32(kh.pre.lcg).lcg
    /\ kh.op = "peek" => ks = kh.pre

\* The fifth byte is drawn with nothing pending: a second advance, and
\* three bytes are left pending.
C28_Witness ==
    /\ kh.op = "get"
    /\ kh.pre.buffer = <<>>
    /\ ks.total_consumed = 5
    /\ Len(ks.buffer) = 3
    /\ Advances = 2

=============================================================================
